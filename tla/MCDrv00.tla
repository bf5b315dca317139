------------------------------ MODULE MCDrv00 ------------------------------
(* Drv00 for TLC.  Sectors of 2 units; on the first channel empty files and *)
(* files that end inside a sector, and requests that start and end          *)
(* anywhere, beyond the end included; a second channel, with an empty file  *)
(* or none, competes for the driver.                                        *)
EXTENDS Drv00

NoMedium == [mode |-> "none", size |-> 0]

SomeMedia == [c \in Channel |->
    IF c = 0 THEN {NoMedium} \cup [mode : {"readonly", "protected", "rw"}, size : {0, 5}]
    ELSE {NoMedium, [mode |-> "readonly", size |-> 0]}]

SomeRequests == [c \in Channel |->
    IF c = 0 THEN [dir : {"read", "write"}, drive : Drive, addr : {0, 1, 2, 7}, size : {0, 1, 4, 5}]
    ELSE [dir : {"read"}, drive : Drive, addr : {0}, size : {0}]]
=============================================================================
