---------------------------- MODULE MCCollections ----------------------------
EXTENDS Collections
====
