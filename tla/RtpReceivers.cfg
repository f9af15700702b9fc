CONSTANTS
  Addrs <- MCAddrs
  Within <- MCWithin
  Calls = {c1, c2}
  RTP_SRV_MAX_RECEIVERS = 2
SYMMETRY MCSymmetry
SPECIFICATION Spec
INVARIANTS
  
  SinksAgree
  
