-------------------------- MODULE SchemaReconciler --------------------------
(***************************************************************************)
(* The schema compatibility reconciler of duckdbconn.rs and its use by    *)
(* DuckDbConnection::get_schema.                                           *)
(*                                                                         *)
(* An Arrow DataType is a tree: a node has a kind and the sequence of its *)
(* children (the element field of a list or a map, the member fields of a *)
(* struct).  Field names do not matter to any rule, so a field is its     *)
(* type and a schema is a sequence of types; a field is named by its      *)
(* position.                                                               *)
(*                                                                         *)
(* is_data_type_supported is a recursive function on the tree;            *)
(* is_field_supported adds the engine's type mapper (to_duckdb_type_id), *)
(* which looks at the top-level kind only.  handle_unsupported_schema,    *)
(* the SchemaValidator default method, lives outside this file and is     *)
(* modelled from the design's section 4.2.                                 *)
(***************************************************************************)
EXTENDS Naturals, Sequences, FiniteSets, SequencesExt

CONSTANTS
    Primitive,     \* leaf kinds with DataType::is_primitive (Int64, Float32, ...)
    NonPrimitive,  \* the other leaf kinds (Utf8, Null, ...)
    MappedKinds,   \* kinds to_duckdb_type_id maps to a DuckDB type id
    MaxDepth,      \* bound on the depth of the type trees
    SchemaWidth    \* bound on the number of fields of a schema

(* The arms of the match in is_data_type_supported.                        *)
ListKinds == {"List", "FixedSizeList", "LargeList"}
ListScalar == {"Utf8", "Binary", "Utf8View", "BinaryView", "Boolean"}

(* Kinds that fall into the catch-all arm with children of their own.    *)
OtherContainers == {"Map"}

Policies == {"Error", "Warn", "Ignore"}

ASSUME ReconcilerAssumption ==
    /\ Primitive \cap NonPrimitive = {}
    /\ MaxDepth \in Nat /\ SchemaWidth \in Nat

Node(k, children) == [kind |-> k, elems |-> children]

(* The type trees of depth at most d.                                      *)
TypesUpTo[d \in Nat] ==
    IF d = 0 THEN {}
    ELSE LET T == TypesUpTo[d - 1] IN
        {Node(k, <<>>) : k \in Primitive \cup NonPrimitive}
        \cup {Node(k, <<t>>) : k \in ListKinds \cup OtherContainers, t \in T}
        \cup {Node("Struct", s) : s \in BoundedSeq(T, 2)}

Types == TypesUpTo[MaxDepth]

(* is_data_type_supported: a list is supported when its element type is  *)
(* primitive or one of the scalar kinds; a struct when all its members   *)
(* are, recursively; every other type is.                                  *)
(* Mutant: the struct arm with any() in place of all().                  *)
RECURSIVE IsDataTypeSupportedAnyMember(_)
IsDataTypeSupportedAnyMember(t) ==
    CASE t.kind \in ListKinds -> t.elems[1].kind \in Primitive \cup ListScalar
      [] t.kind = "Struct"    -> \E i \in DOMAIN t.elems : IsDataTypeSupportedAnyMember(t.elems[i])
      [] OTHER                -> TRUE

RECURSIVE IsDataTypeSupported(_)
IsDataTypeSupported(t) ==
    CASE t.kind \in ListKinds -> t.elems[1].kind \in Primitive \cup ListScalar
      [] t.kind = "Struct"    -> \A i \in DOMAIN t.elems : IsDataTypeSupported(t.elems[i])
      [] OTHER                -> TRUE

(* is_field_supported: the structural rule and the engine's type mapper.  *)
(* Mutant: the result of to_duckdb_type_id is not looked at.             *)
IsFieldSupportedStructural(t) == IsDataTypeSupported(t)

IsFieldSupported(t) == IsDataTypeSupported(t) /\ t.kind \in MappedKinds

(* The positions of the fields handle_unsupported_schema rejects.         *)
Unsupported(s) == {i \in 1 .. Len(s) : ~IsFieldSupported(s[i])}

(* handle_unsupported_schema (design 4.2): unchanged when every field is  *)
(* supported; otherwise an error naming the first offending field under   *)
(* Error, and the schema without the offending fields under Warn and     *)
(* Ignore (Warn also logs, which is left out).                            *)
FirstUnsupported(s) == CHOOSE i \in Unsupported(s) : \A j \in Unsupported(s) : i <= j

(* Mutant: the offending field is named by its 0-based position, as an   *)
(* enumerate() over the fields would give it.                              *)
HandleUnsupportedSchemaZeroBased(s, policy) ==
    IF Unsupported(s) = {} THEN [ok |-> TRUE, schema |-> s]
    ELSE IF policy = "Error"
         THEN [ok |-> FALSE, err |-> "Unsupported", field |-> FirstUnsupported(s) - 1]
         ELSE [ok |-> TRUE, schema |-> SelectSeq(s, IsFieldSupported)]

HandleUnsupportedSchema(s, policy) ==
    IF Unsupported(s) = {} THEN [ok |-> TRUE, schema |-> s]
    ELSE IF policy = "Error"
         THEN [ok |-> FALSE, err |-> "Unsupported", field |-> FirstUnsupported(s)]
         ELSE [ok |-> TRUE, schema |-> SelectSeq(s, IsFieldSupported)]

VARIABLES
    input,   \* the Arrow schema the probe statement of get_schema returns
    policy,  \* the connection's unsupported_type_action
    returned, \* get_schema has returned
    result    \* what it returned

vars == <<input, policy, returned, result>>

Schemas == BoundedSeq(Types, SchemaWidth) \ {<<>>}

(* UnableToGetSchema: prepare or query_arrow of the probe failed.         *)
QueryFailed == [ok |-> FALSE, err |-> "Query", field |-> 0]

Init ==
    /\ input \in Schemas
    /\ policy \in Policies
    /\ returned = FALSE
    /\ result = QueryFailed

(* get_schema: prepare and query_arrow of SELECT * FROM <table> LIMIT 0   *)
(* either fail (UnableToGetSchema), or the schema of the result goes     *)
(* through handle_unsupported_schema with the connection's policy.       *)
GetSchema ==
    /\ ~returned
    /\ returned' = TRUE
    /\ \/ result' = QueryFailed
       \/ result' = HandleUnsupportedSchema(input, policy)
    /\ UNCHANGED <<input, policy>>

(* get_schema has returned.                                                *)
Returned ==
    /\ returned
    /\ UNCHANGED vars

Next == GetSchema \/ Returned

Spec == Init /\ [][Next]_vars

-----------------------------------------------------------------------------
(* Properties.                                                             *)

TypeOK ==
    /\ input \in Schemas
    /\ policy \in Policies
    /\ returned \in BOOLEAN
    /\ \/ result \in [ok : {TRUE}, schema : Schemas \cup {<<>>}]
       \/ result = QueryFailed
       \/ result \in [ok : {FALSE}, err : {"Unsupported"}, field : 1 .. Len(input)]

(* The nodes of t reached from the root through struct members only: the *)
(* nodes whose supportability decides that of t under the rule of design  *)
(* section 4.2.                                                            *)
StructReach[t \in Types] ==
    {t} \cup IF t.kind = "Struct"
             THEN UNION {StructReach[t.elems[i]] : i \in DOMAIN t.elems}
             ELSE {}

(* The recursive predicate is_data_type_supported agrees with the rule    *)
(* stated in design section 4.2: a type is supported exactly when every   *)
(* list reached through struct members has an element that is primitive  *)
(* or one of text, binary, wide text, wide binary and boolean.  It is     *)
(* about the recursion of the Struct arm and the element test of the     *)
(* list arms.                                                              *)
SupportRuleAgreement ==
    \A i \in 1 .. Len(input) :
        IsDataTypeSupported(input[i]) <=>
            \A u \in StructReach[input[i]] :
                u.kind \in ListKinds => u.elems[1].kind \in Primitive \cup ListScalar

(* The fields design section 4.2 says get_schema must drop.               *)
Rejected(t) ==
    \/ t.kind \notin MappedKinds
    \/ \E u \in StructReach[t] :
          u.kind \in ListKinds /\ u.elems[1].kind \notin Primitive \cup ListScalar

Kept == {i \in 1 .. Len(input) : ~Rejected(input[i])}

(* The position in input of the j-th kept field.                           *)
KeptAt(j) == CHOOSE i \in Kept : Cardinality({k \in Kept : k <= i}) = j

(* What get_schema returns obeys design sections 4.2 and 8: a schema it   *)
(* returns holds exactly the fields the rule and the engine's mapper     *)
(* accept, in their original order; under the Error policy any rejected  *)
(* field makes it fail, naming the first rejected field; and a schema    *)
(* with no rejected field comes back unchanged.  It is about             *)
(* is_field_supported combining the two checks and about the error and   *)
(* filter paths of handle_unsupported_schema.                              *)
GetSchemaContract ==
    returned =>
        /\ result.ok => /\ Len(result.schema) = Cardinality(Kept)
                        /\ \A j \in 1 .. Len(result.schema) : result.schema[j] = input[KeptAt(j)]
        /\ (policy = "Error" /\ \E i \in 1 .. Len(input) : Rejected(input[i])) => ~result.ok
        /\ (~result.ok /\ result.err = "Unsupported") =>
               result.field = CHOOSE i \in 1 .. Len(input) \ Kept : \A k \in 1 .. Len(input) \ Kept : i <= k
        /\ (result.ok /\ \A i \in 1 .. Len(input) : ~Rejected(input[i])) => result.schema = input

(* Every node nested anywhere in a field get_schema returns -- element and *)
(* member types at any depth -- obeys the list rule: the invariant the    *)
(* design states for the Reconciler in section 3 ("including nested       *)
(* element/member types, recursively").  It is about the catch-all arm  *)
(* of is_data_type_supported, which does not look inside a Map.         *)
RECURSIVE Nodes(_)
Nodes(t) == {t} \cup UNION {Nodes(t.elems[i]) : i \in DOMAIN t.elems}

NestedTypesSupported ==
    (returned /\ result.ok) =>
        \A j \in 1 .. Len(result.schema) :
            \A u \in Nodes(result.schema[j]) :
                u.kind \in ListKinds => u.elems[1].kind \in Primitive \cup ListScalar

=============================================================================
