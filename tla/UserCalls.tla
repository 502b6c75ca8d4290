------------------------------ MODULE UserCalls ------------------------------
(***************************************************************************)
(* The system calls on files as a user program makes them: the stubs of    *)
(* user/include/syscall.h.  A call is a record of its name and arguments,  *)
(* and the kernel is an operator from a state and a call to a state, the   *)
(* number returned and what was stored in the caller's buffer.  The user   *)
(* programs (ShellCommands, FsTest) are written over any such kernel.      *)
(***************************************************************************)
EXTENDS Integers, Sequences

CONSTANT Kernel(_, _)

None == -1

NoCall == [do |-> "none", path |-> <<>>, to |-> <<>>, mode |-> {},
           fd |-> None, n |-> 0, cells |-> <<>>, stale |-> FALSE]

open(s, p, omode) == Kernel(s, [NoCall EXCEPT !.do = "open", !.path = p, !.mode = omode])
close(s, fd) == Kernel(s, [NoCall EXCEPT !.do = "close", !.fd = fd])
read(s, fd, n) == Kernel(s, [NoCall EXCEPT !.do = "read", !.fd = fd, !.n = n])
write(s, fd, text) == Kernel(s, [NoCall EXCEPT !.do = "write", !.fd = fd, !.cells = text])
mkdir(s, p) == Kernel(s, [NoCall EXCEPT !.do = "mkdir", !.path = p])
chdir(s, p) == Kernel(s, [NoCall EXCEPT !.do = "chdir", !.path = p])
link(s, p, q) == Kernel(s, [NoCall EXCEPT !.do = "link", !.path = p, !.to = q])
unlink(s, p) == Kernel(s, [NoCall EXCEPT !.do = "unlink", !.path = p])
is_dir(s, fd) == Kernel(s, [NoCall EXCEPT !.do = "is_dir", !.fd = fd])
ls(s) == Kernel(s, [NoCall EXCEPT !.do = "ls"])
pwd(s, stale) == Kernel(s, [NoCall EXCEPT !.do = "pwd", !.stale = stale])
=============================================================================
