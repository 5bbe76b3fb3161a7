------------------------------- MODULE MCBoot -------------------------------
\* Small instances of Boot, with the messages of MCCoreEvents: e1 is handled by
\* two writes, bad has an unparsable payload, unk has no handler and junk is no
\* envelope at all.
EXTENDS Boot

CONSTANTS e1, bad, unk, junk, w1

MCRegistered == Events \cap {e1, bad}
MCBadPayload == Events \cap {bad}
MCCalls == [e \in Events |-> IF e = e1 THEN 2 ELSE 0]
=============================================================================
