\* One-field schemas over the type trees of depth 3: does a surviving
\* field ever hide an unsupported list below a container that is not a
\* list or a struct?
CONSTANTS
    Primitive = {"Int64"}
    NonPrimitive = {"Utf8", "Null"}
    MappedKinds = {"Int64", "Utf8", "List", "FixedSizeList", "LargeList", "Struct", "Map"}
    MaxDepth = 3
    SchemaWidth = 1

SPECIFICATION Spec

INVARIANT NestedTypesSupported
