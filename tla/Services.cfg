SPECIFICATION ServicesSpec
\* What is removed does nothing more.
CHECK_DEADLOCK FALSE
CONSTANTS
  RegPeriods    = {0, 60}
  RegGrants     = {40, 50, 1200}
  RegMinExpires = 60
  RegAnswers    = {"2xx", "401", "423", "423bare", "failure", "timeout"}
  RegAges       = {0, 31, 37, 46, 55, 76, 121, 901}
  RegMaxCSeq    = 3
  RegMaxCallIds = 2
  PubPeriods    = {0, 60}
  PubMinExpires = 60
  PubAges       = {0, 31, 55, 76, 121, 901}
  PubMaxEtags   = 3
  PubMaxSent    = 4
  SubPeriods    = {0, 200}
  SubGrants     = {100}
  SubMinExpires = 200
  SubTags       = {1}
  SubMaxSent    = 3
  SubMaxDialogs = 2
  InsMaxFifo    = 2
  InsMaxNotify  = 3
  InsMaxAsked   = 2
  SrvInputs <- SrvManyInputs
  SrvMaxRequests = 2
  SdpStarts <- SdpFew
  SdpMaxLines = 3
  SdpMaxEdits = 1
  AuthInfos <- AuthFewInfos
  AuthUser = "u"
  AuthMethods <- AuthTwoCalls
  AuthChallenges <- AuthFewChallenges
  AuthSlots = 2
  AuthMaxInfos = 2
  AuthMaxNonces = 3
  AuthMaxCount = 2
INVARIANTS
  RegistrationKept
  PublicationKept
  SubscriptionKept
  InsNotifiesInOrder
  SrvKeepsServing
  SdpClonesAgree
  AuthNeverReplayed
