----------------------------- MODULE MC_BanStore -----------------------------
(* BanStore for TLC: two virtual servers sharing the table, each saving   *)
(* one of two ban lists, pages of up to two rows.                         *)
EXTENDS BanStore

CONSTANTS s1, s2
MCServers == {s1, s2}
MCBanLists == [s \in MCServers |-> {<<1>>, <<1, 2>>}]
MCMaxLimit == 2
====
