------------------------------ MODULE BanStore ------------------------------
(***************************************************************************)
(* The ban table of package database (src/tlsserver.go 465-499): one       *)
(* table "bans" for every virtual server, rows keyed by ServerID.  Each    *)
(* server saves its ban list with BanWrite and loads it with BanRead.      *)
(* A row is a record [server, ban]; the table keeps insertion order, and   *)
(* Create(bans) inserts the slice in order.                                *)
(***************************************************************************)
EXTENDS Naturals, Sequences

CONSTANTS
    Servers,  \* virtual server ids
    BanLists, \* BanLists[s]: the ban lists server s may save (sequences of bans)
    MaxLimit  \* largest page size BanRead is asked for

\* BanLists \in [Servers -> SUBSET Seq(Nat)], MaxLimit \in Nat \ {0}.

VARIABLES
    table,  \* the rows of "bans", in insertion order
    saved,  \* saved[s]: the ban list s last wrote (<<>> before any)
    read    \* read[s]: the page BanRead last returned to s

vars == <<table, saved, read>>

Row(s, b) == [server |-> s, ban |-> b]
\* The ban values of the rows of server s, in table order.
BansOf(t, s) ==
    LET rows == SelectSeq(t, LAMBDA r : r.server = s)
    IN  [i \in 1..Len(rows) |-> rows[i].ban]

Init ==
    /\ table = <<>>
    /\ saved = [s \in Servers |-> <<>>]
    /\ read = [s \in Servers |-> <<>>]

\* BanWrite(bans): Delete(&Ban{}, "TRUE") then Create(bans), every ban with
\* ServerID s, in the server's database transaction.
BanWrite(s) ==
    \E bans \in BanLists[s] :
        /\ table' = [i \in 1..Len(bans) |-> Row(s, bans[i])]
        /\ saved' = [saved EXCEPT ![s] = bans]
        /\ UNCHANGED read

\* BanRead(sid, limit, offset): the rows with server_id = sid, LIMIT and
\* OFFSET applied.
BanRead(s) ==
    /\ \E limit \in 1..MaxLimit, offset \in 0..MaxLimit :
          LET mine == BansOf(table, s)
              last == IF offset + limit < Len(mine) THEN offset + limit ELSE Len(mine)
          IN  read' = [read EXCEPT ![s] = SubSeq(mine, offset + 1, last)]
    /\ UNCHANGED <<table, saved>>

Next == \E s \in Servers : BanWrite(s) \/ BanRead(s)

Spec == Init /\ [][Next]_vars

-----------------------------------------------------------------------------
\* A server finds in the table exactly the bans it last saved, whatever the
\* other servers sharing the table saved since (BanWrite at 493-499).
ReadYourWrites == \A s \in Servers : BansOf(table, s) = saved[s]
====
