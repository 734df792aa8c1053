----------------------------- MODULE Container -----------------------------
(***************************************************************************)
(* app/core/container.py: lazily built services, keyed by their type.  A   *)
(* factory resolves what it needs one after the other, on the stack of the *)
(* thread that asked, under a lock that only this thread may take again.   *)
(***************************************************************************)
EXTENDS Naturals, Sequences, SequencesExt

CONSTANTS
  Keys,        \* the types of the services
  Threads,
  Nobody       \* holds the lock when no thread does

ASSUME ContainerAssumption == Nobody \notin Threads

VARIABLES
  kind,        \* _factories and _transients: kind[k] says how k is registered
  wiring,      \* wiring[k]: what the factory of k resolves, in this order
  objects,     \* every object ever built: its key, what it holds, directly or through
               \* others, the number of disposals before it, whether it is a singleton
  singletons,  \* _singletons, in its order: numbers of objects
  resolving,   \* _resolving
  holder,      \* the thread that holds _lock
  stack,       \* the factories each thread is in: the key and the objects it was given
  answer,      \* what the last resolve of a thread came to
  closing,     \* what dispose() has yet to close
  closed,      \* the objects it closed
  round        \* how often dispose() ran

containerVars == <<kind, wiring, objects, singletons, resolving, holder, stack, answer,
                   closing, closed, round>>

Kinds == {"none", "singleton", "transient"}
Answers == {"none", "built", "unregistered", "circular", "raised"}

\* Where the singleton of a key is in the dictionary.
Places(k) == {i \in DOMAIN singletons : objects[singletons[i]].key = k}
Held(ids) == ids \cup UNION {objects[i].holds : i \in ids}

MutantMayEnter(t) == TRUE
MayEnter(t) == holder = Nobody

ContainerInit(kinds, wirings) ==
  /\ kind \in kinds
  /\ wiring \in wirings
  /\ objects = <<>>
  /\ singletons = <<>>
  /\ resolving = {}
  /\ holder = Nobody
  /\ stack = [t \in Threads |-> <<>>]
  /\ answer = [t \in Threads |-> "none"]
  /\ closing = <<>>
  /\ closed = {}
  /\ round = 0

-----------------------------------------------------------------------------
(* register_singleton, register_transient, register_instance *)

Register(k, as) ==
  /\ holder = Nobody
  /\ kind' = [kind EXCEPT ![k] = as]
  /\ UNCHANGED <<wiring, objects, singletons, resolving, holder, stack, answer, closing, closed, round>>

\* The instance takes the place of an earlier one.
RegisterInstance(k) ==
  LET id == Len(objects) + 1
  IN  /\ holder = Nobody
      /\ objects' = Append([i \in DOMAIN objects |->
                               [objects[i] EXCEPT !.kept = @ /\ \A p \in Places(k) : singletons[p] # i]],
                            [key |-> k, holds |-> {}, round |-> round, kept |-> TRUE])
      /\ singletons' = IF Places(k) = {} THEN Append(singletons, id)
                       ELSE [i \in DOMAIN singletons |-> IF i \in Places(k) THEN id ELSE singletons[i]]
      /\ kind' = [kind EXCEPT ![k] = "none"]
      /\ UNCHANGED <<wiring, resolving, holder, stack, answer, closing, closed, round>>

-----------------------------------------------------------------------------
(* resolve *)

\* A thread gets an object: the factory it is in, or else the caller.
Deliver(t, frames, id) ==
  IF frames = <<>>
    THEN /\ stack' = [stack EXCEPT ![t] = <<>>]
         /\ holder' = Nobody
         /\ answer' = [answer EXCEPT ![t] = "built"]
  ELSE LET top == Len(frames)
       IN  /\ stack' = [stack EXCEPT ![t] = [frames EXCEPT ![top].given = Append(@, id)]]
           /\ holder' = t
           /\ UNCHANGED answer

\* An exception leaves every factory the thread is in.
MutantUnwind(t, how) ==
  /\ stack' = [stack EXCEPT ![t] = <<>>]
  /\ holder' = Nobody
  /\ answer' = [answer EXCEPT ![t] = how]
  /\ UNCHANGED resolving

Unwind(t, how) ==
  /\ resolving' = resolving \ {stack[t][i].key : i \in DOMAIN stack[t]}
  /\ stack' = [stack EXCEPT ![t] = <<>>]
  /\ holder' = Nobody
  /\ answer' = [answer EXCEPT ![t] = how]

\* resolve(k), called by the code outside or by the factory on top of the stack.
Enter(t, k) ==
  /\ \/ /\ Places(k) # {}
        /\ Deliver(t, stack[t], singletons[CHOOSE i \in Places(k) : TRUE])
        /\ UNCHANGED resolving
     \/ /\ Places(k) = {}
        /\ kind[k] = "none"
        /\ Unwind(t, "unregistered")
     \/ /\ Places(k) = {}
        /\ kind[k] # "none" /\ k \in resolving
        /\ Unwind(t, "circular")
     \/ /\ Places(k) = {}
        /\ kind[k] # "none" /\ k \notin resolving
        /\ resolving' = resolving \cup {k}
        /\ stack' = [stack EXCEPT ![t] = Append(@, [key |-> k, given |-> <<>>])]
        /\ holder' = t
        /\ UNCHANGED answer
  /\ UNCHANGED <<kind, wiring, objects, singletons, closing, closed, round>>

Resolve(t, k) == stack[t] = <<>> /\ closing = <<>> /\ MayEnter(t) /\ Enter(t, k)

Top(t) == stack[t][Len(stack[t])]
Waiting(t) == stack[t] # <<>> /\ Len(Top(t).given) < Len(wiring[Top(t).key])
Complete(t) == stack[t] # <<>> /\ Len(Top(t).given) = Len(wiring[Top(t).key])

\* The factory resolves the next service it needs.
ResolveNext(t) == Waiting(t) /\ Enter(t, wiring[Top(t).key][Len(Top(t).given) + 1])

\* The factory returns: the object is kept, and handed down the stack.
Keep(k, id) == IF kind[k] = "transient" THEN singletons ELSE Append(singletons, id)

Finish(t) ==
  LET id == Len(objects) + 1
      k == Top(t).key
  IN  /\ Complete(t)
      /\ objects' = Append(objects, [key |-> k, holds |-> Held(ToSet(Top(t).given)),
                                     round |-> round, kept |-> kind[k] # "transient"])
      /\ singletons' = Keep(k, id)
      /\ resolving' = resolving \ {k}
      /\ Deliver(t, Front(stack[t]), id)
      /\ UNCHANGED <<kind, wiring, closing, closed, round>>

\* The factory raises, whatever it was given so far.
Raise(t) ==
  /\ stack[t] # <<>>
  /\ Unwind(t, "raised")
  /\ UNCHANGED <<kind, wiring, objects, singletons, closing, closed, round>>

-----------------------------------------------------------------------------
(* dispose *)

MutantDisposalOrder == singletons
DisposalOrder == Reverse(singletons)

\* The dictionary is emptied when the last close() returned; no thread gets in
\* between, since the lock is held, so it is emptied here at once.
Dispose(t) ==
  /\ MayEnter(t) /\ stack[t] = <<>>
  /\ singletons # <<>>
  /\ closing' = DisposalOrder
  /\ singletons' = <<>>
  /\ holder' = t
  /\ round' = round + 1
  /\ UNCHANGED <<kind, wiring, objects, resolving, stack, answer, closed>>

\* close() of the next one; what it raises is logged.
CloseNext(t) ==
  /\ closing # <<>> /\ holder = t
  /\ closing' = Tail(closing)
  /\ closed' = closed \cup {Head(closing)}
  /\ holder' = IF closing' = <<>> THEN Nobody ELSE t
  /\ UNCHANGED <<kind, wiring, objects, singletons, resolving, stack, answer, round>>

-----------------------------------------------------------------------------
(* Properties *)

\* "a re-entrant lock guards instantiation so two worker threads resolving the
\* same singleton concurrently cannot build it twice" (container.py:42): between
\* two disposals there is one singleton of a key, whichever threads ask for it,
\* directly or through other services, and however often a factory failed.
BuiltOnce ==
  \A i, j \in DOMAIN objects :
    /\ objects[i].kept /\ objects[j].kept
    /\ objects[i].key = objects[j].key /\ objects[i].round = objects[j].round
    => i = j

\* "Disposal runs in reverse instantiation order so that dependents shut down
\* before the services they depend on" (container.py:122): nothing that is still
\* open holds, directly or through others, an object that was closed; and no
\* singleton is left open, whichever close() raises.
OrderlyDisposal ==
  /\ \A i \in ToSet(closing) \cup ToSet(singletons) : objects[i].holds \cap closed = {}
  /\ \A i \in DOMAIN objects :
       objects[i].kept /\ objects[i].round < round => i \in closed \cup ToSet(closing)

\* Some services need each other in a circle.
Circle ==
  \E S \in SUBSET Keys : S # {} /\ \A k \in S : ToSet(wiring[k]) \cap S # {}

\* A resolve is refused as circular only where the factories do need each other
\* in a circle: neither another thread that is in the same factory, nor a factory
\* that raised before, is taken for one.
CircularIsReal == \A t \in Threads : answer[t] = "circular" => Circle
=============================================================================
