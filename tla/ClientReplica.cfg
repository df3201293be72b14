CONSTANTS
  Me <- TheClient
  Others <- OneOther
  Scenes = {cave, keep}
  FirstScene = cave
  NoScene = NoScene
  Moving <- OneOther
  Window = 5
  MaxTick = 1
  MaxChanges = 2
  MaxBacklog = 0
SPECIFICATION FairSpec
INVARIANTS TypeOK OneCopyEach ReplicaMatches OwnsItsAvatar
PROPERTY FollowsHost
