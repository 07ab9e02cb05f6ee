CONSTANTS
  MaxSets = 2
SPECIFICATION FairSpec
INVARIANT CancelSilences
INVARIANT OwnExpiry
INVARIANT AtMostOnce
INVARIANT FiresUnlessImpaired
PROPERTY FiresEventually
