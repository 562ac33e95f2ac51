SPECIFICATION FairSpec
CONSTANT Unmasked = {"timer", "keyboard", "card"}
INVARIANT TypeOK
INVARIANT NobodySpins
INVARIANT HandlersAreReady
INVARIANT LocksFollowHierarchy
PROPERTY BootCompletes
