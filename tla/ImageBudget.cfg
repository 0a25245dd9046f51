SPECIFICATION Spec
CONSTANTS
    MediaTypes = {"png", "webp"}
    Hashes = {"h1", "h2", "h3", "h4"}
    Images <- MCImages
    Bodies <- MCBodies
    MaxImageBytes = 2
    MaxDecodedPixels = 10
    MaxEvents = 4
INVARIANTS
    RefusesTheRest
