\* One request at a time, one key, a limit of one request a minute of two ticks,
\* every start of Codex, Gemini and two relays, and every way to set what guards the gateway.
SPECIFICATION FairSpec
CONSTANTS
  k1 = k1
  addr = addr
  m1 = m1
  m2 = m2
  m3 = m3
  NoModel = NoModel
  NoKey = NoKey
  RemoteAddr = addr
  DefaultImageModel = m2
  Keys <- MCKeys
  APIKeys <- MCAPIKeys
  Models <- MCModels
  Deployments <- MCDeployments
  Asks <- MCAsks
  Requests = {1}
  Bodies = {"whole", "relayed", "piped"}
  MaxFrames = 2
  Rpm = 1
  Minute = 2
INVARIANTS
  AtMostTwiceTheLimit
  AdvertisedIsRouted
  SlotOutlivesUpstream
  NothingLost
PROPERTIES
  ListensGuarded
  FailuresIsolated
  OnlyTheBusyAreLimited
  StreamsEnd

