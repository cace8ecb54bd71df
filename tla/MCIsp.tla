------------------------------- MODULE MCIsp -------------------------------
EXTENDS Isp

\* Two functions: one moves three pages, in two pieces; the other asks for
\* more than the page buffer has, then uses the flash.
C(f, p, s) == [fn |-> f, page |-> p, size |-> s]
MCApplets == {<<C("READ_HOST", 0, 5)>>,
              <<C("ALLOC", 0, 3), C("ALLOC", 0, 2), C("FLASH", 0, 0)>>}
=============================================================================
