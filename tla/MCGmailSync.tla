---------------------------- MODULE MCGmailSync ----------------------------
(* Two mailboxes, the first with up to three messages, so that its import  *)
(* takes a successor.                                                      *)
EXTENDS GmailSync

Still(first) == [first |-> first, mail |-> first, poison |-> 0, connected |-> {1, 2},
                 faults |-> 0, gaps |-> 0, ops |-> 0, kinds |-> {}]

Alone(first) == [Still(first) EXCEPT !.connected = {1}]

SevenScenes == {
    [Still(<<3, 1>>) EXCEPT !.faults = 1],
    [Still(<<1, 1>>) EXCEPT !.mail = <<3, 1>>, !.poison = 2, !.gaps = 1],
    [Still(<<1, 1>>) EXCEPT !.ops = 2, !.kinds = {"map", "unmap"}],
    [Still(<<1, 1>>) EXCEPT !.ops = 1, !.kinds = {"disconnect"}],
    [Alone(<<1, 0>>) EXCEPT !.mail = <<2, 0>>, !.ops = 1, !.kinds = {"connect"}],
    [Alone(<<1, 0>>) EXCEPT !.ops = 2, !.kinds = {"disconnect", "connect"}],
    [Alone(<<2, 0>>) EXCEPT !.ops = 1, !.kinds = {"disconnect"}, !.faults = 1]}

\* A reconnection over an expired cursor, with a job and a sync of before still under way.
LateSync == {[Alone(<<1, 0>>) EXCEPT !.mail = <<2, 0>>, !.ops = 1, !.kinds = {"connect"}, !.gaps = 1]}

\* The older mailbox has a message that throws.
OneStuck == {[Still(<<1, 1>>) EXCEPT !.poison = 1]}
=============================================================================
