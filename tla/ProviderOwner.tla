---------------------------- MODULE ProviderOwner -----------------------------
(***************************************************************************)
(* Who owns a provider (src/src/Provider.cpp).  A Provider object points   *)
(* at a ProviderImpl, whose RPCs are registered with the engine as long as *)
(* it lives, and has the engine call it back when the engine finalizes, so *)
(* that the ProviderImpl is gone before the engine is.  The callback keeps *)
(* the ADDRESS of the Provider.                                            *)
(*                                                                         *)
(* Providers are made in place, moved (a std::vector that grows moves its  *)
(* elements, examples/server.cpp:28-31) and destroyed, one line of         *)
(* Provider.cpp after the other.  The engine may start to finalize at any  *)
(* time (Admin::shutdownServer), between two of these lines as well, and   *)
(* runs the callbacks last in, first out:                                  *)
(*                                                                         *)
(*   none -Construct-> pointed -PushCallback-> whole                       *)
(*   none -Move-> moving -TakeSelf-> pointed                               *)
(*   whole -Destroy-> tested -PopCallback-> ending -Release-> none         *)
(*              '-----------------------------^                            *)
(*                                                                         *)
(* A line that dereferences a null self ends the process (Crash).          *)
(***************************************************************************)
EXTENDS Sequences, Naturals

CONSTANTS
  Place,     (* The addresses at which a Provider can live.                *)
  Movable,   (* The places out of which a Provider may be moved.           *)
  Impl,      (* The ProviderImpls.                                         *)
  Null,      (* The pointer of a Provider without one.                     *)
  MaxCallbacks (* Bound: the engine's list grows to this length at most.   *)

ASSUME OwnerAssumption ==
  /\ Movable \subseteq Place
  /\ Null \notin Impl \cup Place
  /\ MaxCallbacks \in Nat

VARIABLES
  stage,      (* How far the constructor or destructor of each place is.   *)
  source,     (* The Provider out of which one is being moved.             *)
  self,       (* The ProviderImpl of each.                                 *)
  registered, (* The ProviderImpls whose RPCs the engine dispatches.       *)
  used,       (* The ProviderImpls made so far.                            *)
  callbacks,  (* The places the engine's finalize callbacks reset.         *)
  engine,     (* "running", "finalizing" or "finalized".                   *)
  crashed     (* Whether the process has dereferenced a null pointer.      *)

vars ==
  <<stage, source, self, registered, used, callbacks, engine, crashed>>

(* "none": no Provider is there; "given": another is being moved from it.  *)
Stage ==
  {"none", "moving", "pointed", "whole", "given", "tested", "ending"}

(* TypeOK: the types of the variables; only a ProviderImpl that was made   *)
(* is registered.                                                          *)
TypeOK ==
  /\ stage \in [Place -> Stage]
  /\ source \in [Place -> Place \cup {Null}]
  /\ self \in [Place -> Impl \cup {Null}]
  /\ registered \subseteq used
  /\ used \subseteq Impl
  /\ callbacks \in Seq(Place)
  /\ engine \in {"running", "finalizing", "finalized"}
  /\ crashed \in BOOLEAN

Init ==
  /\ stage = [p \in Place |-> "none"]
  /\ source = [p \in Place |-> Null]
  /\ self = [p \in Place |-> Null]
  /\ registered = {}
  /\ used = {}
  /\ callbacks = <<>>
  /\ engine = "running"
  /\ crashed = FALSE

(* The places at which there is a Provider, or a part of one.              *)
object == {p \in Place : stage[p] # "none"}

-----------------------------------------------------------------------------
(* The engine's list of callbacks (thallium and margo).                    *)

push_finalize_callback(p, list) == Append(list, p)

Positions(p, list) == {i \in DOMAIN list : list[i] = p}

(* The newest callback of owner p is removed, if p has one.                *)
pop_finalize_callback(p, list) ==
  IF Positions(p, list) = {} THEN list
  ELSE LET last == CHOOSE i \in Positions(p, list) :
                     \A j \in Positions(p, list) : j <= i
       IN  SubSeq(list, 1, last - 1) \o SubSeq(list, last + 1, Len(list))

-----------------------------------------------------------------------------
(* The owners.                                                             *)

(* make_shared<ProviderImpl>, in the constructors from an engine and from  *)
(* a margo instance, of a Provider at place p (lines 17, 22).  The RPCs    *)
(* are registered; nothing calls this Provider back yet.                   *)
Construct(p) ==
  /\ stage[p] = "none"
  /\ \E i \in Impl \ used :
       /\ self' = [self EXCEPT ![p] = i]
       /\ used' = used \cup {i}
       /\ registered' = registered \cup {i}
  /\ stage' = [stage EXCEPT ![p] = "pointed"]
  /\ UNCHANGED <<source, callbacks, engine, crashed>>

(* Mutant: a constructor that delegates to the other, and both register.   *)
PushTwice(p) ==
  /\ stage[p] = "pointed"
  /\ self[p] # Null
  /\ Len(callbacks) < MaxCallbacks
  /\ callbacks' =
       push_finalize_callback(p, push_finalize_callback(p, callbacks))
  /\ stage' = [stage EXCEPT ![p] = "whole"]
  /\ UNCHANGED <<source, self, registered, used, engine, crashed>>

(* The last line of each constructor (lines 18, 23, 29), whatever the      *)
(* engine does meanwhile.                                                  *)
PushCallback(p) ==
  /\ stage[p] = "pointed"
  /\ self[p] # Null
  /\ Len(callbacks) < MaxCallbacks
  /\ callbacks' = push_finalize_callback(p, callbacks)
  /\ stage' = [stage EXCEPT ![p] = "whole"]
  /\ UNCHANGED <<source, self, registered, used, engine, crashed>>

(* Provider(Provider&& other), at place p, line 27.  The callback it pops  *)
(* is its own: other's stays in the list.                                  *)
Move(p, other) ==
  /\ stage[p] = "none"
  /\ other \in Movable
  /\ stage[other] = "whole"
  /\ self[other] # Null
  /\ callbacks' = pop_finalize_callback(p, callbacks)
  /\ stage' = [stage EXCEPT ![p] = "moving", ![other] = "given"]
  /\ source' = [source EXCEPT ![p] = other]
  /\ UNCHANGED <<self, registered, used, engine, crashed>>

(* Mutant: the moved Provider registers no callback of its own.            *)
TakeSilently(p) ==
  /\ stage[p] = "moving"
  /\ self' = [self EXCEPT ![p] = self[source[p]], ![source[p]] = Null]
  /\ stage' = [stage EXCEPT ![p] = "whole", ![source[p]] = "whole"]
  /\ source' = [source EXCEPT ![p] = Null]
  /\ UNCHANGED <<registered, used, callbacks, engine, crashed>>

(* self = std::move(other.self), line 28: null, if other has been called   *)
(* back since line 27.                                                     *)
TakeSelf(p) ==
  /\ stage[p] = "moving"
  /\ self' = [self EXCEPT ![p] = self[source[p]], ![source[p]] = Null]
  /\ stage' = [stage EXCEPT ![p] = "pointed", ![source[p]] = "whole"]
  /\ source' = [source EXCEPT ![p] = Null]
  /\ UNCHANGED <<registered, used, callbacks, engine, crashed>>

(* Mutant: the destructor does not pop its callback.                       *)
DestroyOnly(p) ==
  /\ stage[p] = "whole"
  /\ stage' = [stage EXCEPT ![p] = "ending"]
  /\ UNCHANGED <<source, self, registered, used, callbacks, engine, crashed>>

(* Mutant: the destructor pops its callback without the test of self.      *)
DestroyUntested(p) ==
  /\ stage[p] = "whole"
  /\ stage' = [stage EXCEPT ![p] = "tested"]
  /\ UNCHANGED <<source, self, registered, used, callbacks, engine, crashed>>

(* ~Provider(), line 33: if(self).                                         *)
Destroy(p) ==
  /\ stage[p] = "whole"
  /\ stage' = [stage EXCEPT ![p] = IF self[p] = Null THEN "ending"
                                                    ELSE "tested"]
  /\ UNCHANGED <<source, self, registered, used, callbacks, engine, crashed>>

(* Line 34: self is read again.                                            *)
PopCallback(p) ==
  /\ stage[p] = "tested"
  /\ self[p] # Null
  /\ callbacks' = pop_finalize_callback(p, callbacks)
  /\ stage' = [stage EXCEPT ![p] = "ending"]
  /\ UNCHANGED <<source, self, registered, used, engine, crashed>>

(* The end of ~Provider() (line 36): the member self goes, and with it the *)
(* ProviderImpl, which deregisters its RPCs.                               *)
Release(p) ==
  /\ stage[p] = "ending"
  /\ self' = [self EXCEPT ![p] = Null]
  /\ registered' = registered \ {self[p]}
  /\ stage' = [stage EXCEPT ![p] = "none"]
  /\ UNCHANGED <<source, used, callbacks, engine, crashed>>

(***************************************************************************)
(* Lines 18, 23, 29 and 34 dereference the self of their Provider, and     *)
(* line 27 that of other.  Users move a Provider that is valid (operator   *)
(* bool): that it was called back meanwhile they cannot know.              *)
(***************************************************************************)
Crash(p) ==
  /\ \/ stage[p] \in {"pointed", "tested"} /\ self[p] = Null
     \/ /\ stage[p] = "none" /\ engine # "running"
        /\ \E other \in Movable : stage[other] = "whole" /\ self[other] = Null
  /\ crashed' = TRUE
  /\ UNCHANGED <<stage, source, self, registered, used, callbacks, engine>>

OwnerStep(p) ==
  \/ Construct(p) \/ PushCallback(p)
  \/ \E other \in Place : Move(p, other)
  \/ TakeSelf(p)
  \/ Destroy(p) \/ PopCallback(p) \/ Release(p)
  \/ Crash(p)

-----------------------------------------------------------------------------
(* The engine.                                                             *)

StartFinalize ==
  /\ engine = "running"
  /\ engine' = "finalizing"
  /\ UNCHANGED <<stage, source, self, registered, used, callbacks, crashed>>

(* [p=this]() { p->self.reset(); }, the newest callback first, which the   *)
(* engine takes off its list and calls.                                    *)
RunCallback ==
  /\ engine = "finalizing"
  /\ callbacks # <<>>
  /\ LET p == callbacks[Len(callbacks)] IN
       /\ self' = [self EXCEPT ![p] = Null]
       /\ registered' = registered \ {self[p]}
  /\ callbacks' = SubSeq(callbacks, 1, Len(callbacks) - 1)
  /\ UNCHANGED <<stage, source, used, engine, crashed>>

EndFinalize ==
  /\ engine = "finalizing"
  /\ callbacks = <<>>
  /\ engine' = "finalized"
  /\ UNCHANGED <<stage, source, self, registered, used, callbacks, crashed>>

Next ==
  /\ ~crashed
  /\ \/ \E p \in Place : OwnerStep(p)
     \/ StartFinalize \/ RunCallback \/ EndFinalize

Spec == Init /\ [][Next]_vars

-----------------------------------------------------------------------------
(* Properties.                                                             *)

(* A Provider that owns something the engine does not know of: the lines   *)
(* 17-18, 22-23, 28-29 and 34-36.                                          *)
Between(p) == stage[p] \in {"pointed", "ending"}

(***************************************************************************)
(* GoneFirst: when the engine ends no ProviderImpl is left that would      *)
(* still use it, and no RPC is dispatched to one, however often Providers  *)
(* were moved and whatever was in progress: unless it is owned by a        *)
(* constructor that has not reached its push_finalize_callback, or a       *)
(* destructor that is past its pop_finalize_callback (Provider.cpp:17-18,  *)
(* 22-23, 28-29, 34-36).  A Provider that is being moved, or whose         *)
(* destructor has tested self only, is none of these.                      *)
(***************************************************************************)
GoneFirst ==
  [][engine # "finalized" /\ engine' = "finalized" =>
       \A i \in registered : \E p \in Place : Between(p) /\ self[p] = i]_vars

(***************************************************************************)
(* NoCrash: until the engine starts to finalize no constructor, move or    *)
(* destructor dereferences a null self, although every move leaves a       *)
(* Provider without one behind, and though several of them run at once.    *)
(* (Once it does, a callback may come between the test of line 33 and the  *)
(* use of line 34.)                                                        *)
(***************************************************************************)
NoCrash == crashed => engine # "running"

(***************************************************************************)
(* PinnedAlive: a Provider that is never moved away from its place is      *)
(* there, or the end of its destructor is not reached, as long as its      *)
(* finalize callback is in the engine's list: ~Provider takes it out,      *)
(* though finalization goes on beside it, and a place that is used again   *)
(* gets a callback of its own (Provider.cpp:18, 23, 32-36).                *)
(***************************************************************************)
PinnedAlive ==
  \A i \in DOMAIN callbacks :
    callbacks[i] \in Place \ Movable => callbacks[i] \in object

(***************************************************************************)
(* CallbacksAlive: "Move-constructor." (include/yp/Provider.hpp:58) and    *)
(* "Number of providers to spawn" (examples/server.cpp:41), which are kept *)
(* in a vector that moves them: every callback in the engine's list        *)
(* resets a Provider that exists; another address is no longer memory of a *)
(* Provider when the callback writes to it.                                *)
(***************************************************************************)
CallbacksAlive == \A i \in DOMAIN callbacks : callbacks[i] \in object

===============================================================================
