SPECIFICATION Spec
CONSTANTS
  Thread = {t}
  Object = {a, b}
  Name = {"field", "artifact.name", "artifact.host", "artifact.tenant"}
  HOST = "artifact.host"
  TENANT = "artifact.tenant"
  NAME = "artifact.name"
  ip = ip
  mapped = mapped
  Text <- MCText
  Empty <- MCEmpty
  Artifact <- MCArtifact
  UnknownArtifact <- MCUnknown
  Ip <- MCIp
  NoIp = NoIp
  Bits = 4
  NaN = nan
  PosInf = inf
  NegInf = neginf
  ArtifactName <- MCArtifactName
  ArtifactIn <- MCArtifactIn
  IpText <- MCIpText
  IpIn <- MCIpIn
  NumberText <- MCNumberText
  DateText <- MCDateText
  Inputs <- MCInputs
  Asked <- MCAsked
  Contexts <- MCContexts
  MaxWrites = 2
INVARIANT
  AnswersCurrent
SYMMETRY Symmetric
