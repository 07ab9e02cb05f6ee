CONSTANTS
  Ifs = {i1, i2}
  MaxMsgs = 2
  MaxChanges = 3
  MaxDatagrams = 2
  W = 8
  Micro = 5
  Nano = 59
  ntpSecondOffset = 132
SPECIFICATION MCSpec
SYMMETRY Symmetry
CONSTRAINT FewChanges
INVARIANT ListCurrent
INVARIANT EventsFollowed
INVARIANT MessagesDue
INVARIANT SentOverAll
INVARIANT DatagramsDue
INVARIANT RoundTrip
