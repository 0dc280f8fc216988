--------------------------- MODULE MCDevenvService ---------------------------
EXTENDS DevenvService

CONSTANTS c1, c2, c3

(* One `start` and one `stop` invocation of the tool, run concurrently.     *)
StartStop == [c \in {c1, c2} |-> IF c = c1 THEN "start" ELSE "stop"]

(* One `start` and two `stop` invocations, from two or three terminals.    *)
StartStopStop == [c \in {c1, c2, c3} |-> IF c = c1 THEN "start" ELSE "stop"]

(* Two `start` invocations, e.g. two terminals running the tool at once.    *)
StartStart == [c \in {c1, c2} |-> "start"]
====
