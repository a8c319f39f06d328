CONSTANTS
    NOp = 3
    Host = {1, 2}
    Richieste = {"bootstrap"}
    PostiMax = 1
    TentativiMax = 1
SPECIFICATION SafeSpecAuto
PROPERTIES
    RegoleAllaPartenza
