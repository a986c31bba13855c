SPECIFICATION FairSpec
INVARIANT QuietRewind
PROPERTIES Released NoChurn ImplementsConn
