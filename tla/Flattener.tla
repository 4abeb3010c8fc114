------------------------------ MODULE Flattener ------------------------------
(***************************************************************************)
(* torch2trt/flattener.py: nested arguments and results as flat lists of   *)
(* tensors.                                                                *)
(*                                                                         *)
(* A value is a tensor, something else ("other": also an integer tensor),  *)
(* or a list, tuple or dict, whose kids is a function on the positions or  *)
(* on the keys (numbers, so that both are sorted).  A schema has the same  *)
(* form with an index in place of every tensor.                            *)
(***************************************************************************)
EXTENDS Naturals, Sequences, FiniteSets, SequencesExt

Tensor(t) == [kind |-> "tensor", of |-> t]
Other == [kind |-> "other"]
Node(kind, kids) == [kind |-> kind, kids |-> kids]
Tuple(kids) == Node("tuple", kids)
IsNode(v) == v.kind \in {"list", "tuple", "dict"}

SortedKeys(kids) == SetToSortSeq(DOMAIN kids, <)

(* The schema of a value that is not flattened: None.                      *)
NoSchema == [kind |-> "none"]
Index(n) == [kind |-> "index", of |-> n]

SizeAfter(size, child) == child.size

RECURSIVE MakeSchemaFromValue(_, _)
(* _make_schema_from_value: the schema, and the size after it.             *)
MakeSchemaFromValue(v, size) ==
    IF v.kind = "tensor" THEN [schema |-> Index(size + 1), size |-> size + 1]
    ELSE IF ~IsNode(v) THEN [schema |-> NoSchema, size |-> size]
    ELSE LET Step(acc, key) ==
                 LET child == MakeSchemaFromValue(v.kids[key], acc.size)
                 IN  [kids |-> [k \in DOMAIN acc.kids \cup {key} |->
                                   IF k = key THEN child.schema ELSE acc.kids[k]],
                      size |-> SizeAfter(acc.size, child)]
             all == FoldLeft(Step, [kids |-> <<>>, size |-> size], SortedKeys(v.kids))
         IN  [schema |-> Node(v.kind, all.kids), size |-> all.size]

FromValue(v) == MakeSchemaFromValue(v, 0)

RECURSIVE FlattenInto(_, _, _)
(* _flatten: the tensors of v are written to result.                       *)
FlattenInto(schema, v, result) ==
    IF schema.kind = "index" THEN [result EXCEPT ![schema.of] = v]
    ELSE IF ~IsNode(schema) THEN result
    ELSE FoldLeft(LAMBDA acc, key : FlattenInto(schema.kids[key], v.kids[key], acc),
                  result, SortedKeys(schema.kids))

Flatten(fl, v) == FlattenInto(fl.schema, v, [i \in 1..fl.size |-> NoSchema])

RECURSIVE UnflattenSchema(_, _)
UnflattenSchema(schema, flat) ==
    IF schema.kind = "index" THEN flat[schema.of]
    ELSE IF ~IsNode(schema) THEN NoSchema
    ELSE Node(schema.kind, [key \in DOMAIN schema.kids |-> UnflattenSchema(schema.kids[key], flat)])

Unflatten(fl, flat) == UnflattenSchema(fl.schema, flat)

-------------------------------------------------------------------------------
RECURSIVE Kept(_)
(* A value without what is not flattened.                                  *)
Kept(v) ==
    IF v.kind = "tensor" THEN v
    ELSE IF ~IsNode(v) THEN NoSchema
    ELSE Node(v.kind, [key \in DOMAIN v.kids |-> Kept(v.kids[key])])

RECURSIVE TensorsOf(_)
(* The tensors of a value, from left to right.                             *)
TensorsOf(v) ==
    IF v.kind = "tensor" THEN <<v>>
    ELSE IF ~IsNode(v) THEN <<>>
    ELSE FoldLeft(LAMBDA acc, key : acc \o TensorsOf(v.kids[key]), <<>>, SortedKeys(v.kids))
===============================================================================
