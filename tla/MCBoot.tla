------------------------------- MODULE MCBoot --------------------------------
(* Boot on a machine with tables of 8 cells, a page of 2 units and so on up  *)
(* to an address space of 1024 units: the kernel from 8 to 21, past the      *)
(* first 2 MiB page.                                                         *)
EXTENDS Boot

Entry(a, l, t) == [addr |-> a, len |-> l, type |-> t]

\* Regions that start and end around the borders of the pages of both sizes.
MCEntries ==
  {e \in [addr : {1, 2, 8, 16, 17, 32, 97, 128, 130, 256, 399},
          len : {7, 16, 32, 33, 111, 128, 145, 270, 624}, type : {1, 2}] :
     e.addr + e.len <= 1024}

\* Memory below the kernel, then one or two regions.
MCMaps == {<<Entry(0, 5, 1), e>> : e \in MCEntries}
            \cup {<<Entry(0, 5, 1), p[1], p[2]>> :
                    p \in {q \in MCEntries \X MCEntries : q[1].addr + q[1].len <= q[2].addr}}

PC == [platform : {"x86_64"}, map : MCMaps, after : {<<>>},
       cmdline : {4, 21, 260}, cmdlen : {1}]

Raspi == [platform : {"raspi3"}, map : {<<>>} \cup {<<Entry(0, n, 1)>> : n \in 33..128},
          after : {<<>>}, cmdline : {1}, cmdlen : {2}]

Linux == {[platform |-> "linux", map |-> <<Entry(a, n, 1)>>, after |-> <<>>,
           cmdline |-> a, cmdlen |-> c] : a \in {64, 70}, n \in 1..40, c \in {1, 2}}

\* A machine whose memory reaches beyond the 1024 units of one PDPT.
MCLarge == [platform : {"x86_64"}, map : {<<Entry(0, 5, 1), Entry(64, n, 1)>> : n \in 900..1100},
            after : {<<>>}, cmdline : {4}, cmdlen : {1}]

\* Something that looks like an entry follows the memory map.
MCFollowed == [platform : {"x86_64"}, map : {<<Entry(0, 5, 1), Entry(16, 100, 1)>>},
               after : {<<e>> : e \in MCEntries}, cmdline : {4}, cmdlen : {1}]

MCFirmwares == PC \cup Raspi \cup Linux
ASSUME MCOrderly == \A f \in MCFirmwares : Orderly(f)

MCTables == {10, 11, 12}
=============================================================================
