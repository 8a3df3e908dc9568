SPECIFICATION CheckSpec
CONSTANTS
    Networks <- MCNetworks
    Instances <- MCInstances
    FactoryOf <- MCFactoryOf
    Externals <- MCExternals
    Impls <- MCImpls
    Functions <- MCFunctions
    Access <- MCAccess
    Answers <- MCAnswers
    KnownFactories <- MCKnown
PROPERTIES
    HolesAreFound
    ProperPasses
CHECK_DEADLOCK FALSE
