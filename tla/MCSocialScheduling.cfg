SPECIFICATION Spec
CONSTANTS
    a1 = a1
    a2 = a2
    a3 = a3
    f1 = f1
    f2 = f2
    f3 = f3
    f4 = f4
    l1 = l1
    l2 = l2
    Accounts <- ThreeAccounts
    NoAccount = NoAccount
    Links <- TwoLinks
    Friendships <- FourFriendships
    SharedIds = {1, 2}
    Times = {1, 2}
    FriendsAtStart <- TwoPairs
    SharedAtStart <- OneShared
    FriendOps = {"get_link", "reset_link", "disable_link", "join", "remove_friend"}
    ReminderOps = {"create", "cancel", "update", "complete_own", "fire", "edit_own"}
    MaxFriendOps = 3
    MaxReminderOps = 3
    MaxOps = 3
SYMMETRY Symmetry
INVARIANTS
    ShownTokenWorks
    RingsAsAgreed
    LastFactStands
CHECK_DEADLOCK FALSE
