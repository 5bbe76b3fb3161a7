---------------------------- MODULE MCCoreEvents ----------------------------
\* Small instances of CoreEvents.  The events are model values: e1 is handled
\* by two writes, e2 by a lookup and a write, bad has an unparsable payload,
\* unk has no handler and junk is no envelope at all.
EXTENDS CoreEvents, TLC

CONSTANTS e1, e2, bad, unk, junk, w1, w2

MCRegistered == Events \cap {e1, e2, bad}
MCBadPayload == Events \cap {bad}
MCCalls == [e \in Events |-> IF e \in {e1, e2} THEN 2 ELSE 0]
MCLookups == (Events \cap {e2}) \X {1}

WorkerSymmetry == Permutations(Workers)
=============================================================================
