\* Every type tree of depth 3 over one primitive and two other leaf kinds,
\* one of which the engine's type mapper rejects, as a one-field schema,
\* under each policy.
CONSTANTS
    Primitive = {"Int64"}
    NonPrimitive = {"Utf8", "Null"}
    MappedKinds = {"Int64", "Utf8", "List", "FixedSizeList", "LargeList", "Struct", "Map"}
    MaxDepth = 3
    SchemaWidth = 1

SPECIFICATION Spec

INVARIANT TypeOK
INVARIANT SupportRuleAgreement
INVARIANT GetSchemaContract
