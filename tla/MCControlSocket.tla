--------------------------- MODULE MCControlSocket ---------------------------
(* Instances of ControlSocket for TLC.                                     *)
EXTENDS ControlSocket

\* A text at the frame limit and one beyond it.
MCPayloads == {<<1, 2, 1>>, <<1, 2, 1, 1>>}

MCSizes == {<<24, 80>>, <<30, 100>>}

\* A size that fits u16 and one that does not; the same for u8.
MCSignalSizes  == {<<24, 80>>, <<65537, -1>>}
MCSignalInputs == {<<1, 257>>}

MCChunks == {<<2>>, <<2, 2, 1>>}

\* A literal; 22|1, whose matches may overlap; and one that does not compile.
MCPatterns == {[kind |-> "literal", bytes |-> <<2>>],
               [kind |-> "regex", words |-> <<<<2, 2>>, <<1>>>>, atEnd |-> FALSE],
               [kind |-> "invalid"]}
=============================================================================
