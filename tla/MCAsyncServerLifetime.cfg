SPECIFICATION Spec
CONSTANTS
    Conns = {c1, c2}
    Submissions = {c1}
    Handlers = {h1, h2}
    Acceptor = Acceptor
    Coros = {c1, c2, Acceptor}
    NoCoro = NoCoro
INVARIANT NoCoroutineOutlivesTransport
