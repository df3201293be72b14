CONSTANTS
  Me <- TheClient
  Others <- OneOther
  Scenes = {cave}
  FirstScene = cave
  NoScene = NoScene
  Moving <- OneOther
  Window = 5
  MaxTick = 2
  MaxChanges = 1
  MaxBacklog = 0
SPECIFICATION Spec
PROPERTY OnlyOlderDropped
