-------------------------- MODULE MCMessageFrames --------------------------
EXTENDS MessageFrames

\* Zeros, and nine messages with bytes of both signs and all digits.
Messages ==
  [j \in 0..9 |-> [k \in 1..25 |-> IF j = 0 THEN 0 ELSE (j * 29 + k * 53) % 256]]

\* All succeed; the first fails; two in the middle of a pack fail.
FailedSets == {{}, {1}, {4, 5}}

\* Both digits change, the sign changes, and the counter wraps.
CounterValues == {9, 127, 254}

\* All transports; one of the two that a pack's counter counts.
Configurations == {{"beacon", "btl", "bt4", "bt5"}, {"beacon", "bt4"}}
============================================================================
