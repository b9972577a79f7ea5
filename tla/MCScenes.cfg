SPECIFICATION MCSpec
CONSTANTS
  Saves <- AllSaves
  Patients = {1, 10}
  MaxPoints = 2
  Skills <- AllSkills
  Items = {"one", "all", "escape", "book", "wild"}
  MaxStock = 1
  ShopIDs = {1, 70, 72, 76, 85}
  Goods <- AllGoods
  Quantities = {33, 66}
  Finds = 33
  Funds = 70
  Days = {229, 230, 231, 232, 233, 234, 235, 236, 237, 238}
  Answers <- AllAnswers
  FlagSets <- AllFlagSets
  Starts = {0, 2}
  Seeds = {781249433, 202715204}
  Outfits = {2, 51, 151}
  Dresses = {2, 51}
  Wardrobe = {1, 9}
  Settings <- AllSettings
  Casts <- AllCasts
  Versions = {1, 2}
  Files = {"a"}
  Shots <- AllShots
  Foes = {232, 217}
  Wishes = {0, 7}
  BEDs = {0, 2}
  VoiceCues = {5}
  Defaults = {0, 210}
  Summons <- AllSummons
  MaskSkills = {370, 371, 20}
  Options <- AllOptions
  Voices <- AllVoices
  Personas = {209, 210}
  Actors = {0, 9}
  Frames = {0, 1440}
  TableFiles <- AllTableFiles
  Capacity <- AllCapacity
  TableAt <- AllPlaces
  Top = 72
  Rows = 4
  UnitIDs <- AllUnitIDs
  Bonuses <- AllBonuses
  Leftovers = {0, 17}
  Encounters = {1, 830}
  ListLengths = {2, 3}
  Member = 2
  Ids = {0, 1, 2, 3, 11}
  Targets = {0, 1, 3, 5, 6, 98, 99, 100}
  BaseLevel = 2
  BaseStats <- FirstStats
  ExpRequired <- Threshold
  Gain <- RyujiGain
  LearnSet <- RyujiSkills
  Trained = 5
  Installations <- AllInstallations
  Counts = {5, 9}
  MaxOpen = 4
  Squad = {11, 12}
  SquadID <- Twins
  States <- AllStates
  Words <- AllWords
  Orderees = {0, 2, 11}
INVARIANTS
  CalendarIsRight
  ModelsFit
  LinesAreRight
  DataSurvives
  FoesAsScripted
  GrowthIsEarned
  GuidesAgree
PROPERTIES
  MembersInReach
  HealingIsPaid
  ShopKeepsBooks
  MusicIsFound
  LooksAgree
  TablesAsFiled
  AbilitiesFit
  OrdersObeyed
CHECK_DEADLOCK FALSE
