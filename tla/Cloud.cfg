SPECIFICATION CloudSpec
CONSTANTS
  i1 = i1  i2 = i2  h1 = h1  n1 = n1  n2 = n2  t1 = t1  t2 = t2  r1 = r1
  mq = mq  mt = mt  c1 = c1  u1 = u1  u2 = u2  e1 = e1  a1 = a1  p1 = p1  p2 = p2  s1 = s1  s2 = s2
  w1 = w1  w2 = w2  g1 = g1  g2 = g2
  ItemIds <- MCItemIds  Holders <- MCHolders  MaxLists = 3  NoItem = NoItem
  Members <- MCMembers  GroupNames <- MCGroupNames  Targets <- MCTargets  Triggers <- MCTriggers
  MaxObjCalls = 3  MaxActions = 2  Entities <- MCEntities  SlotValues = {1, 2}
  WShadows <- MCWShadows  WGroups <- MCWGroups  NoTarget = NoTarget  MaxWrites = 1  MaxWSessions = 3
  Channels <- MCChannels  Generic <- MCChannels  SubNodes <- MCSubNodes  Callbacks <- MCCallbacks
  MaxSubCalls = 4  Nobody = Nobody
  Users <- MCUsers  OwnEvents <- MCOwnEvents  EventCbs <- MCCallbacks  NoEventCb = NoEventCb
  MqttAdapters <- MCMqttAdapters  Accounts <- MCAccounts  MaxConnects = 2  MaxConfigures = 2  None = None
  MaxSamples = 3  MaxPages = 3
INVARIANTS
  CloudTypeOK
  ObjectsMirrorCloud
  NodeMirrorsStore
  WritesGoWhereAsked
  SubscriptionsAreKept
  EventsLeaveNothing
  SdkIsWhole
  ConnectedIsSignedIn
  PagesAreWhole
  ValuesAgree
PROPERTIES
  ListsAreKept
CHECK_DEADLOCK FALSE
