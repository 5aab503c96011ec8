CONSTANTS
    Names <- MCNames
    Values <- MCValues
    Error = Error
    Layers <- MCLayers
    Arguments <- MCArguments
    Configured <- MCConfigured
    Items <- MCItems
    Aliases <- MCAliases
    Render <- MCRender
SPECIFICATION Spec
INVARIANTS Precedence AliasFollowsLayers
