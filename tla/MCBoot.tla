------------------------------- MODULE MCBoot -------------------------------
(* A bus of 16 functions with up to 16 devices: beyond the table, beyond    *)
(* the next block, up to the first device's data.  Images of up to 6 pixels *)
(* in rows of 2 and 3, in packets that end within rows and behind the last. *)
EXTENDS Boot

Index(f) == 8 * f[1] + 4 * f[2] + f[3]
Bus == (0 .. 1) \X (0 .. 1) \X (0 .. 3)
MCAnswering == {{f \in Bus : Index(f) < n} : n \in {0, 3, 5, 13, 16}} \union {{f \in Bus : f[1] # f[2] /\ f[3] # 1}}

MCImages ==
    [kind : {1, 2, 9, 10}, supported : {TRUE}, w : {2, 3}, h : {2}, o : {0, 1}]
        \union [kind : {1, 3}, supported : {FALSE}, w : {0, 2}, h : {2}, o : {0}]
=============================================================================
