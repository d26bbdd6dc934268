-------------------------- MODULE MCInboundPipeline --------------------------
(* A conversation of two turns over four reminders, one of which recurs;   *)
(* c overlaps d.  The plans put every operation next to one it disturbs.   *)
EXTENDS InboundPipeline

CONSTANTS a, b, c, d

McClashes == {{c, d}}
McAction(op, items, match) == [op |-> op, items |-> items, match |-> match]

McPlans ==
    { <<>>,
      <<McAction("create", <<a, b>>, {}), McAction("create", <<c>>, {})>>,
      <<McAction("create", <<a, d>>, {}), McAction("move", <<>>, {})>>,
      <<McAction("delete", <<>>, {a, b}), McAction("create", <<d>>, {})>>,
      <<McAction("look", <<>>, {}), McAction("complete", <<>>, {b})>>,
      <<McAction("complete_all", <<>>, {a, b}), McAction("social", <<>>, {})>>,
      <<McAction("delete_all", <<>>, {b, c}), McAction("setting", <<>>, {})>>,
      <<McAction("setting", <<>>, {}), McAction("update", <<d>>, {a})>> }
=============================================================================
