------------------------------- MODULE MCWire -------------------------------
(* Instances of Wire for TLC: command lines of the client and pipelines.   *)
EXTENDS WireProperties

q == << "q" >>
l == << "l" >>
z == << "z" >>
o == << "o" >>
t == << "t" >>

MCLetters == {"q", "l", "z", "o", "t", "a"}

LoginWords == << l, << "a" >>, << "1" >> >>

\* Every kind of command; one cut by its buffer; a QUIT among the others; an
\* unknown word; a missing argument; a LOGIN that is too long.
MCArgvs ==
    { LoginWords \o << z, t, << "a" >>, << "1" >> >>,
      LoginWords \o << o, << "a", "1", "a", "1", "a" >>, z >>,
      LoginWords \o << q, z >>,
      LoginWords \o << << "a" >> >>,
      LoginWords \o << o >>,
      << l, << "a", "a" >>, << "1", "1" >> >> }

Ask(c, a) == [cmd |-> c, arg |-> a]

MCPipelines ==
    { << Ask(l, << "a", "SP", "1" >>), Ask(z, << >>), Ask(o, << "a" >>) >>,
      << Ask(z, << >>), Ask(q, << >>), Ask(z, << >>) >>,
      << Ask(o, << "a", "a", "a", "a", "a" >>), Ask(z, << >>) >>,
      << Ask(<< "a", "LF" >>, << >>), Ask(z, << >>) >> }
=============================================================================
