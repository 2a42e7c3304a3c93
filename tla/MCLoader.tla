------------------------------ MODULE MCLoader ------------------------------
(***************************************************************************)
(* Instances of Loader for TLC: 2^32 is 8 and a page has 2 bytes, so that  *)
(* a memory has up to 3 pages; 4 pages are a memory of 4 GiB.              *)
(***************************************************************************)
EXTENDS Loader

Module(ids, counts, bound) == [ids |-> ids, counts |-> counts, bound |-> bound]

\* Modules about functions, about the table, about memory and its growth by a start function,
\* and odd ones.
LayoutSets ==
    { Module({Section.Type, Section.Import, Section.Function, Section.Code, Section.Start}, {0, 1}, 6),
      Module({Section.Type, Section.Import, Section.Function}, {1, 2}, 3),
      Module({Section.Type, Section.Function, Section.Table, Section.Element}, {1, 2}, 4),
      Module({Section.Memory, Section.Export, Section.Data}, {1, 2}, 3),
      Module({Section.Memory, Section.Export, Section.Data}, {1}, 5),
      Module({Section.Type, Section.Function, Section.Memory, Section.Start, Section.Code}, {1}, 5),
      Module({Section.Custom, Section.Global, Section.Data, Unknown}, {0, 1}, 3) }

\* Nothing, one byte, the second half of two pages, an overlap, one that ends at 2^32 and one
\* that wraps around.
SegmentSamples == {<<0, 0>>, <<0, 1>>, <<2, 2>>, <<0, 2>>, <<6, 2>>, <<7, 2>>}
=============================================================================
