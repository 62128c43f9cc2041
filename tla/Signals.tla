------------------------------ MODULE Signals ------------------------------
(***************************************************************************)
(* KObjectBase (zircon-object/src/object/mod.rs): the signal bits of a     *)
(* kernel object and the callbacks waiting for them, as operators on a     *)
(* record [signal, callbacks].  Every operator is one critical section of  *)
(* KObjectBase::inner.  A callback is a record with at least the field     *)
(* `want`; it is over (returns true) at the first signal that meets it.    *)
(***************************************************************************)
EXTENDS Integers, FiniteSets

CONSTANT MaxSignalCallbacks   \* MAX_SIGNAL_CALLBACKS

ASSUME SignalsAssumption == MaxSignalCallbacks \in Nat \ {0}

NewBase(signal) == [signal |-> signal, callbacks |-> {}]

Meets(signal, cb) == signal \cap cb.want # {}

Changed(base, clear, set) == (base.signal \ clear) \cup set

\* The callbacks that signal_change(clear, set) runs to completion.
Fired(base, clear, set) ==
  LET new == Changed(base, clear, set)
  IN {cb \in base.callbacks : new # base.signal /\ Meets(new, cb)}

SignalChange(base, clear, set) ==
  [signal    |-> Changed(base, clear, set),
   callbacks |-> base.callbacks \ Fired(base, clear, set)]

Full(base) == Cardinality(base.callbacks) >= MaxSignalCallbacks

\* add_signal_callback: run it once; keep it if it is not over and there is
\* room.  A full table drops it without telling the caller.
AddSignalCallback(base, cb) ==
  IF Meets(base.signal, cb) \/ Full(base)
  THEN base
  ELSE [base EXCEPT !.callbacks = @ \cup {cb}]
=============================================================================
