---------------------------- MODULE MCCustomData ----------------------------
EXTENDS CustomData
====
