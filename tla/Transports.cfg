SPECIFICATION TransportsSpec
\* A call that is over, and a connection nobody uses, stop.
CHECK_DEADLOCK FALSE
CONSTANTS
  TcpPeers      = {"a", "b"}
  TcpTalkers    = {"a"}
  TcpSlots      = 2
  TcpMaxFd      = 2
  TcpMessages   = 2
  TcpBufSize    = 2
  TlsPeers      = {"a", "b"}
  TlsSlots      = 2
  TlsCertificates = {"good", "selfsigned"}
  TlsPinned     = TRUE
  DtlsPeers     = {"a", "b", "c"}
  DtlsSlots     = 2
  DtlsSockets   = 2
  RchChoices   <- RchOneEach
  RchDomains    = {"a", "b", "sub.b"}
  RchRelated   <- RchPair
  RchPorts      = {5060, 7000}
  RchHosts      = {"h", "g"}
  RchIps        = {"1", "2"}
  RchSlots      = 2
  DlgChains <- DlgTwoChains
  DlgForks = {"f", "g"}
  DlgMaxSent = 2
  DlgMaxMoves = 1
  NapServers <- NapFour
  NapAnswers <- NapFewAnswers
  NapTable = 3
  NapRequests = {1, 2}
  TlRequests <- TlSomeRequests
  TlLive = 3
  TlMade = 4
  TlTimed = 2
  TlTime = 2
  TlDialogs = {"d", "e"}
  TlStarts = 2
  TlCounter = 2
  MsgTexts <- MsgSomeTexts
  MsgValues <- MsgWords
  MsgHeaders <- MsgSomeHeaders
  MsgBodies <- MsgSomeBodies
  MsgMaxCalls = 4
  AdrValues <- AdrSomeValues
  CrdValues <- CrdSomeValues
INVARIANTS
  TlsNothingExposed
  DtlsKept
  DialogsAgree
  MessagesArrive
  ListsKept
  TextsKept
