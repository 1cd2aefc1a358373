------------------------------ MODULE MCLedger ------------------------------
(* Ledger on small instances. *)
EXTENDS Ledger

NoBound == [may |-> {}, msg |-> 0, change |-> 0, op |-> 0, kill |-> 0, month |-> 1]

\* Transcripts that are torn and replaced, read by two.
Reading == [NoBound EXCEPT !.may = {"torn", "more", "redo", "pass"}, !.msg = 2, !.change = 2, !.op = 1, !.kill = 1]

Shrinking == [NoBound EXCEPT !.may = {"shrink"}, !.msg = 2, !.change = 2]

\* Messages of many lines, more than the ring holds, over two months.
Streams == [NoBound EXCEPT !.may = {"more", "torn"}, !.msg = 3, !.change = 1, !.month = 2]

\* Two enforce at once, with kills; caps come and go.
Beside == [NoBound EXCEPT !.may = {"cap:box", "cap:cluster", "beside"}, !.msg = 1, !.change = 2, !.op = 1, !.kill = 1]

\* One after the other, over two months, and with a peer.
Alone == [NoBound EXCEPT !.may = {"cap:box", "cap:cluster", "peer", "alone"}, !.msg = 2, !.change = 2, !.op = 1, !.month = 2]

\* Runs of the job.
Jobs == [NoBound EXCEPT !.may = {"cap:job", "job", "beside"}, !.msg = 2, !.change = 3, !.op = 1]

AllPlays == {Reading, Shrinking, Streams, Beside, Alone, Jobs}

\* A run that takes longer than the worker's minute.
LongRun == {[NoBound EXCEPT !.may = {"job", "cap:job"}, !.msg = 2, !.change = 2]}
=============================================================================
