---- MODULE MCBPlusTree ----
EXTENDS BPlusTree

MCRanges == {<<4, 5>>}
MCFiles  == {<<3, 4, 5, 6, 7, 8>>}
Unsorted == {<<3, 2, 1, 4>>}
====
