------------------------------ MODULE DeepCopy ------------------------------
(***************************************************************************)
(* The generated copy functions of package v1alpha1                        *)
(* (zz_generated.deepcopy.go) run on a heap.  An object is a tree of       *)
(* cells: a struct, or what a pointer, a slice or a map of one of its      *)
(* fields refers to.  DeepCopy follows the steps module V1alpha1 lists for *)
(* the type; whoever receives the copy then writes to it, as a controller  *)
(* does with an object it took from a shared cache.                        *)
(*                                                                         *)
(* The object is built by the environment, out of the fields the struct    *)
(* declares (tiflash_config.go) or, for a type whose declaration is not in *)
(* the repository, out of the fields its DeepCopyInto mentions.  The copy  *)
(* functions that are not in the repository are taken to copy everything.  *)
(***************************************************************************)
EXTENDS Integers, Sequences, FiniteSets, SequencesExt, V1alpha1

CONSTANTS
    MaxCells,   \* bound on the cells of the object that is copied
    MaxLen      \* bound on the elements of a slice or a map

ASSUME MaxCells \in Nat /\ MaxLen \in Nat

VARIABLES
    heap,       \* heap[a]: the cell at address a
    root,       \* the receiver in of DeepCopy, or Nil
    copied,     \* DeepCopy has returned
    copy,       \* what it returned
    seen        \* the object as it was when DeepCopy was called

vars == <<heap, root, copied, copy, seen>>

Nil == 0

\* In place of an address: the call did not return, a nil pointer was
\* dereferenced.
Panicked == -1

\* The contents of a cell: nothing (new), what the builder put, a later write.
Zero    == 0
Built   == 1
Written == 2

\* The fields of a type that refer to other cells.
Fields(type) ==
    IF type \in DOMAIN Declared THEN Declared[type]
    ELSE IF type \in DOMAIN DeepCopyInto THEN DeepCopyInto[type]
    ELSE <<>>

\* new(T).
New(type) ==
    [type |-> type, val |-> Zero, refs |-> [f \in DOMAIN Fields(type) |-> <<>>]]

\* The cells a cell refers to, and the cells of the object at a.
Targets(cell) == UNION {ToSet(cell.refs[f]) : f \in DOMAIN cell.refs}

RECURSIVE Reach(_, _)
Reach(h, a) ==
    IF a = Nil THEN {} ELSE {a} \cup UNION {Reach(h, t) : t \in Targets(h[a])}

\* The object at a without its addresses.
RECURSIVE Unfold(_, _)
Unfold(h, a) ==
    IF a = Nil THEN Nil
    ELSE [type |-> h[a].type, val |-> h[a].val,
          refs |-> [f \in DOMAIN h[a].refs |->
                      [i \in DOMAIN h[a].refs[f] |-> Unfold(h, h[a].refs[f][i])]]]

TypeOK ==
    /\ \A a \in DOMAIN heap :
          /\ heap[a].val \in {Zero, Built, Written}
          /\ DOMAIN heap[a].refs = DOMAIN Fields(heap[a].type)
          /\ \A f \in DOMAIN heap[a].refs :
                /\ Len(heap[a].refs[f]) <=
                      IF Fields(heap[a].type)[f].many THEN MaxLen ELSE 1
                /\ \A t \in ToSet(heap[a].refs[f]) :
                      t \in DOMAIN heap /\ heap[t].type = Fields(heap[a].type)[f].type
    /\ root \in {Nil} \cup DOMAIN heap
    /\ copy \in {Nil} \cup DOMAIN heap
    /\ copied \in BOOLEAN

Init ==
    /\ \/ heap = <<>> /\ root = Nil
       \/ \E type \in DOMAIN DeepCopyInto :
             heap = <<[New(type) EXCEPT !.val = Built]>> /\ root = 1
    /\ copied = FALSE
    /\ copy = Nil
    /\ seen = Nil

\* The environment: the object gets something for one of its fields to
\* refer to, before it is copied.
Grow ==
    /\ ~copied /\ Len(heap) < MaxCells
    /\ \E a \in Reach(heap, root) : \E f \in DOMAIN heap[a].refs :
          LET field == Fields(heap[a].type)[f]
          IN  /\ Len(heap[a].refs[f]) < IF field.many THEN MaxLen ELSE 1
              /\ heap' = Append([heap EXCEPT ![a].refs[f] = Append(@, Len(heap) + 1)],
                                [New(field.type) EXCEPT !.val = Built])
    /\ UNCHANGED <<root, copied, copy, seen>>

-----------------------------------------------------------------------------
\* Mutated form of DeepCopyNil: DeepCopy without its test of in == nil, which
\* goes on to DeepCopyInto and panics at *out = *in.
DeepCopyNil_Dereferences ==
    /\ ~copied /\ root = Nil
    /\ copied' = TRUE
    /\ copy' = Panicked
    /\ UNCHANGED <<heap, root, seen>>

-----------------------------------------------------------------------------
\* *out = *in: the fields of out refer to what the fields of in refer to.
Assigned(cell) == cell

(***************************************************************************)
(* The copy of the cell at a, made in one of three ways: "plan", by the    *)
(* DeepCopyInto of its type; "value", by assignment; "deep", by a function *)
(* that is not in the repository.  The result is the heap with the new     *)
(* cells and the address of the copy.                                      *)
(***************************************************************************)
RECURSIVE Copy(_, _, _)
Copy(h, a, way) ==
    LET cell == h[a]
        planned == way = "plan" /\ cell.type \in DOMAIN DeepCopyInto
        steps == DeepCopyInto[cell.type]
        \* how what field f refers to is copied, "shared" if it is not
        Step(f) ==
            CASE planned /\ f \in DOMAIN steps    -> steps[f].copy
              [] planned /\ f \notin DOMAIN steps -> "shared"
              [] ~planned /\ way = "value"        -> "shared"
              [] OTHER                            -> "deep"
        slots == UNION {{f} \X DOMAIN cell.refs[f] : f \in DOMAIN cell.refs}
        CopySlot(slot, acc) ==
            LET f == slot[1]
                i == slot[2]
                made == Copy(acc.heap, cell.refs[f][i], Step(f))
            IN  IF Step(f) = "shared" THEN acc
                ELSE [heap |-> made.heap,
                      out  |-> [acc.out EXCEPT !.refs[f][i] = made.addr]]
        done == FoldSet(CopySlot, [heap |-> h, out |-> Assigned(cell)], slots)
    IN  [heap |-> Append(done.heap, done.out), addr |-> Len(done.heap) + 1]

\* DeepCopy of a receiver that is not nil: out := new(T), in.DeepCopyInto(out).
DeepCopy ==
    /\ ~copied /\ root # Nil
    /\ LET made == Copy(heap, root, "plan")
       IN  heap' = made.heap /\ copy' = made.addr
    /\ copied' = TRUE
    /\ seen' = Unfold(heap, root)
    /\ UNCHANGED root

\* DeepCopy of a nil receiver returns nil.
DeepCopyNil ==
    /\ ~copied /\ root = Nil
    /\ copied' = TRUE
    /\ UNCHANGED <<heap, root, copy, seen>>

\* DeepCopyObject returns what DeepCopy returns, nil included.
DeepCopyObject ==
    \/ root # Nil /\ heap[root].type \in Objects /\ DeepCopy
    \/ DeepCopyNil

\* The environment: the holder of the copy writes to a cell of it.
Write ==
    /\ copied
    /\ \E a \in Reach(heap, copy) :
          /\ heap[a].val # Written
          /\ heap' = [heap EXCEPT ![a].val = Written]
    /\ UNCHANGED <<root, copied, copy, seen>>

Next ==
    \/ Grow \/ Write
    \/ DeepCopyObject \/ DeepCopy \/ DeepCopyNil

Spec == Init /\ [][Next]_vars

-----------------------------------------------------------------------------
(***************************************************************************)
(* Whatever is written to the copy, the object that was copied stays as it *)
(* was: no cell of it is a cell of the copy.  This needs a step of         *)
(* DeepCopyInto for every field of the struct that holds a pointer, a      *)
(* slice or a map, and of the functions it calls for theirs.               *)
(***************************************************************************)
OriginalIntact == copied => Unfold(heap, root) = seen

=============================================================================
