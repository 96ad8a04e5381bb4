---------------------------- MODULE MCWspHandle ----------------------------
(***************************************************************************)
(* Instances of WspHandle for TLC.                                         *)
(***************************************************************************)
EXTENDS WspHandle, TLC

CONSTANTS h1, h2

\* One archive; two that can be opened; the two of test_write_and_read_back,
\* whose counts are no multiples; two refused for their retentions.
OneArchive  == <<[spp |-> 60, count |-> 4]>>
TwoArchives == <<[spp |-> 60, count |-> 5], [spp |-> 120, count |-> 10]>>
TestLayout  == <<[spp |-> 60, count |-> 10], [spp |-> 120, count |-> 6]>>
Decreasing  == <<[spp |-> 60, count |-> 10], [spp |-> 120, count |-> 5]>>

AllLayouts == {OneArchive, TwoArchives, TestLayout, Decreasing}

TestLayouts == {TestLayout}

OneLayout == {OneArchive}

\* Handles of programs that use memfs beside real files, and of programs that
\* use both mappings of real files.
DiskAndMemory == h1 :> {"FILE", "MMAP"} @@ h2 :> {"MMAP", "MEMORY"}

MappedHandle == h1 :> {"MMAP"}

\* One handle used for a file on disk and then for memfs.
ReusedHandle == h1 :> {"FILE", "MEMORY"}
=============================================================================
