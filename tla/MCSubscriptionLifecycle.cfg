CONSTANTS
    s1 = s1  s2 = s2
    h1 = h1  h2 = h2
    NoSub = NoSub
    Subs <- MCSubs
    Hooks <- MCHooks
    MaxFaults = 2
SPECIFICATION FairSpec
INVARIANTS TierNeedsSub PaidIsServed DormancyFollowsTier
PROPERTIES UpgradeTakesEffect DowngradeTakesEffect
CHECK_DEADLOCK FALSE
