SPECIFICATION MCSpec
CONSTANTS
    b1 = b1
    b2 = b2
    p1 = p1
    p2 = p2
    o1 = o1
    Trajectories <- Trajectory
    Pools <- SmallPools
    Predictions <- SmallPredictions
    Policy <- PolicyOne
    Draw <- DrawOne
    OutputPaths = {1, 2, 3, 4}
    BatchSize = 1
    RoundCount = 3
    Plans <- MCPlans
    Recipes <- MCRecipes
    Builders = {b1, b2}
    Groups <- MCGroups
    ModelOf <- MCModelOf
    Target = "pyramid"
    Initial = {1, 2, 6, 7}
    Holdout = {5}
    Registries <- MCSources
    Budget = 1
    Width <- MCWidth
    Uncertainty <- MCUncertainty
    HashOrder <- MCHashOrder
    Forecast <- MCForecast
    Runs = {p1, p2}
    Roots = {o1}
SYMMETRY Symmetry
INVARIANTS
  TypesOK
  TrajectoryIsSound
  SelectionIsNew
  RegistryIsSound
CHECK_DEADLOCK FALSE
