SPECIFICATION SwitchSpec
CONSTANT NumWorkloads = 1
PROPERTY SwitchGetsPastItsLock
