SPECIFICATION RenderSpec
CONSTANTS
    Inputs <- MCInputs
INVARIANTS BootsWithItsPlugins 
CHECK_DEADLOCK FALSE
