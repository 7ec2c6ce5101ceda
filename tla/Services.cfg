SPECIFICATION Spec
CONSTANTS
  Current = Current
  Legacy = Legacy
  Unsigned = Unsigned
  NoStream = NoStream
  InvalidEncodedStream = InvalidEncodedStream
  CodecFailure = CodecFailure
  Plays <- MCPlays
  MaxFaults <- MCMaxFaults
INVARIANTS
  TypeOK
  ServingIsOffered
  NoSpareOffers
  CalledInTheEnd
  OnlyThroughSecretary
  NilOnlyDuringRelogin
PROPERTY
  LoopsEnd
CHECK_DEADLOCK FALSE
