---------------------------- MODULE MCGpmfTrack ----------------------------
(* Headers of sizes that fit the nesting of a small file, and of others.   *)
EXTENDS GpmfTrack

Of(types, sizes, entries) ==
  [type : types, size : sizes, extended : {0}, entries : entries,
   good : {TRUE}]

MCHeaders ==
  Of({"trak"}, {0, 4, 6}, {0}) \cup Of({"moov"}, {6}, {0}) \cup
  Of({"stsd"}, {6}, {1, 2}) \cup Of({"stsd"}, {0}, {1}) \cup
  Of({"gpmd"} \cup OtherTables, {2}, {0}) \cup Of({"free"}, {3}, {0}) \cup
  [type : {"moov"}, size : {1}, extended : {3, 8}, entries : {0},
   good : {TRUE}] \cup
  [type : OtherTables, size : {2}, extended : {0}, entries : {0},
   good : {FALSE}]
=============================================================================
