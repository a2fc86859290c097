------------------------------ MODULE JsonMerge ------------------------------
(***************************************************************************)
(* JSON Merge Patch of src/src/protocol/diff/merge.rs.  A JSON value is    *)
(* Null, a leaf [leaf |-> x] (string, number, array: compared, never       *)
(* entered) or an object [fields |-> f], f a function from keys to values. *)
(***************************************************************************)
EXTENDS SequencesExt

Null == [null |-> TRUE]
Leaf(x) == [leaf |-> x]
Object(f) == [fields |-> f]
EmptyObject == Object(<<>>)
IsObject(v) == "fields" \in DOMAIN v
Keys(v) == DOMAIN v.fields

RECURSIVE MergePatch(_, _)
MergePatch(target, patch) ==
    IF ~IsObject(patch) THEN patch
    ELSE
      LET base == IF IsObject(target) THEN target ELSE EmptyObject
          Old(k) == IF k \in Keys(base) THEN base.fields[k] ELSE EmptyObject
          removed == {k \in Keys(patch) : patch.fields[k] = Null}
      IN  Object([k \in (Keys(base) \cup Keys(patch)) \ removed |->
              IF k \notin Keys(patch) THEN base.fields[k]
              ELSE MergePatch(Old(k), patch.fields[k])])

ApplyPatches(snapshot, patches) == FoldLeft(MergePatch, snapshot, patches)

\* Mutant of CreatePatch: keys that are gone are left out.
RECURSIVE CreatePatchKeeping(_, _)
CreatePatchKeeping(original, updated) ==
    IF ~(IsObject(original) /\ IsObject(updated)) THEN updated
    ELSE Object([k \in {x \in Keys(updated) :
                          x \in Keys(original) => original.fields[x] # updated.fields[x]} |->
             IF k \notin Keys(original) THEN updated.fields[k]
             ELSE CreatePatchKeeping(original.fields[k], updated.fields[k])])

\* Changed keys, new keys, and Null for keys that are gone.
RECURSIVE CreatePatch(_, _)
CreatePatch(original, updated) ==
    IF ~(IsObject(original) /\ IsObject(updated)) THEN updated
    ELSE
      LET gone == Keys(original) \ Keys(updated)
          new == Keys(updated) \ Keys(original)
          changed == {k \in Keys(original) \cap Keys(updated) :
                        original.fields[k] # updated.fields[k]}
      IN  Object([k \in gone \cup new \cup changed |->
              IF k \in gone THEN Null
              ELSE IF k \in new THEN updated.fields[k]
              ELSE CreatePatch(original.fields[k], updated.fields[k])])

\* Objects over keys, of leaves and of objects over inner keys.
ObjectsOver(keys, values) == {Object(f) : f \in UNION {[S -> values] : S \in SUBSET keys}}
JsonValues(keys, inner, leaves) ==
    LET flat == {Leaf(x) : x \in leaves}
    IN  flat \cup ObjectsOver(keys, flat \cup ObjectsOver(inner, flat))
------------------------------------------------------------------------------
VARIABLES original, updated, later
jsonVars == <<original, updated, later>>

\* A client that applies the difference between two snapshots has the second,
\* and one that has missed an answer and gets two differences at once has the
\* third: whatever is nested, removed, or changes between object and value.
MergeRestores ==
    ApplyPatches(original, <<CreatePatch(original, updated), CreatePatch(updated, later)>>)
        = later
=============================================================================
