----------------------------- MODULE BootArgs ------------------------------
(* What the program is told when it starts: the environment and the          *)
(* arguments on Linux (boot/linux-x86_64/setup.cc), the firmware's command   *)
(* line on the Raspberry Pi (boot/raspi3/setup.cc).  Strings are those of    *)
(* CString.                                                                  *)
EXTENDS CString

CONSTANTS ENV_HEAPLEN,       \* LIBSUPCXX_HEAPLEN
          HEAPLEN_DEFAULT,
          VC_MEM_BASE,       \* vc_mem.mem_base=
          HEAPEND_DEFAULT

NULLPTR == <<0>>   \* no string

\* Mutant: the value starts with the '='.
Getenv_WithEquals(envp, name) ==
  LET len == Strlen(name)
      i == FirstAt(1, Len(envp), LAMBDA e : Strncmp(envp[e], name, len) = 0, 0)
  IN  IF i = 0 THEN NULLPTR ELSE Behind(envp[i], len)
\* The value of the first string that begins with the name, without the
\* character behind the name.
Getenv(envp, name) ==
  LET len == Strlen(name)
      i == FirstAt(1, Len(envp), LAMBDA e : Strncmp(envp[e], name, len) = 0, 0)
  IN  IF i = 0 THEN NULLPTR ELSE Behind(envp[i], len + 1)

HeapLen(envp) == LET env == Getenv(envp, ENV_HEAPLEN)
                 IN  IF env = NULLPTR THEN HEAPLEN_DEFAULT ELSE Strtoul(env, 0).value

\* The heap's memory after the arguments were copied to its start: each is
\* copied without its NUL and followed by a space, the last one by a NUL.
AddCmdLine(argv, heap) ==
  LET Copy(a, i) ==
        LET len == Strlen(argv[i])
            at  == a.end + len
            put == SubSeq(a.heap, 1, a.end - 1)
                   \o Strncpy(Behind(a.heap, a.end - 1), argv[i], len)
        IN  [heap |-> [put EXCEPT ![at] = IF i = Len(argv) THEN 0 ELSE 32],
             end  |-> at + 1]
  IN  FoldLeft(Copy, [heap |-> heap, end |-> 1], [i \in DOMAIN argv |-> i]).heap

\* The user's part of the firmware's command line, and where the heap ends.
FirmwareCmdLine(cmdline) ==
  LET vcBase == Strstr(cmdline, VC_MEM_BASE)
      user   == Strstr(cmdline, <<32, 32>>)
      base   == Behind(cmdline, vcBase + Strlen(VC_MEM_BASE) - 1)
      number == Strtoul(base, 16)
  IN  IF vcBase = 0 THEN [user |-> cmdline, end |-> HEAPEND_DEFAULT]
      ELSE [user |-> IF user = 0 THEN <<>> ELSE Behind(cmdline, user + 1),
            end  |-> IF number.end # 1 /\ Byte(base, number.end) = 32
                     THEN number.value ELSE HEAPEND_DEFAULT]
=============================================================================
