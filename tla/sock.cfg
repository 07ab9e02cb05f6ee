CONSTANTS
  MaxFds = 2
  MaxBacklog = 2
  Listeners = {"client"}
SPECIFICATION Spec
CONSTRAINT UntilRobbed
INVARIANT NobodyRobbed
INVARIANT Ownership
INVARIANT CallbacksWatched
INVARIANT AcceptDue
