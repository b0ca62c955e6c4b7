CONSTANTS
  alice = alice
  bob = bob
  gold = gold
  basic = basic
  Null = Null
  Customer = {alice}
  Attr <- MCAttr
  Date <- MCDate
  MaxBuilds = 4
SPECIFICATION InOrderSpec
INVARIANT
  SurrogateKeyUnique
CHECK_DEADLOCK FALSE
