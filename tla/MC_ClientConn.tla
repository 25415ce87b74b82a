--------------------------- MODULE MC_ClientConn ---------------------------
(* ClientConn for TLC: four control frames from the peer and two datagrams *)
(* from the UDP socket reader; the datagram classes per run.               *)
EXTENDS ClientConn

\* Every branch of udpRecvLoop.
MCDatagramsAll == DatagramClasses
\* The branches that keep the loop running.
MCDatagramsGood == {"Ping", "Voice"}
MCMaxMsgs == 4
MCMaxDgrams == 2
====
