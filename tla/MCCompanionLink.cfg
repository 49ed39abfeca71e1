SPECIFICATION TaskSpec
CONSTANTS
  Companions <- MCCompanions
  Conns <- MCConns
  Calls <- MCCalls
  NoConn = NoConn
INVARIANTS
  RegisteredIsServed
  OpenIsRegistered
  
PROPERTIES
  ImplementsAtMostOnceCall
  
  
